---- MODULE Spec2Model ----
(***************************************************************************)
(* Model of python/trakt_instance.py: the TraktInstance device-code        *)
(* authentication handshake (constructor, authenticate(), the poller       *)
(* callbacks on_aborted / on_authenticated / on_expired / on_poll, the     *)
(* oauth.token_refreshed hook, store_auth() and read_auth()).              *)
(*                                                                         *)
(* self.is_authenticating is a threading.Condition() built without a lock  *)
(* argument, i.e. around a re-entrant RLock: it is modelled by lockOwner,  *)
(* lockCount (recursion level) and the set of waiters.                     *)
(*                                                                         *)
(* The module also models scripts/sync_db.py (specification SyncSpec), an  *)
(* independent program with its own variables; while one program runs, the *)
(* variables of the other stay at rest.                                    *)
(***************************************************************************)
EXTENDS Integers, Sequences, FiniteSets, TLC

\* ---- bounds ----
NumThreads == 2
MaxHandshakes == 2
MaxCalls == 3
NumPayloads == 2
MaxPolls == 1

Threads == 1..NumThreads
Handshakes == 1..MaxHandshakes
Payloads == 1..NumPayloads

\* the thread that runs TraktInstance.__init__
CtorThread == 1

\* Python None for self.authorization
None == 0

\* ---- the token file and its JSON text ----
\* A file is [exists, text]; text is a sequence of JSON tokens.
MissingFile == [exists |-> FALSE, text |-> <<>>]
EmptyFile == [exists |-> TRUE, text |-> <<>>]

\* json.dump(self.authorization, f): None is written as the text null,
\* a token payload as a JSON object.
JsonDump(a) == IF a = None THEN <<"null">> ELSE <<"{", a, "}">>

\* json.load(f) raises on a text that is not a JSON document (zero bytes).
JsonRaises(text) == Len(text) = 0

\* json.load(f) of a well-formed text.
JsonLoad(text) == IF text = <<"null">> THEN None ELSE text[2]

\* store_auth(): open(..., 'w') creates or truncates, json.dump writes.
StoreAuth(a) == [exists |-> TRUE, text |-> JsonDump(a)]

\* the token files a process may find at start-up
InitFiles == {MissingFile, EmptyFile, StoreAuth(None)} \cup {StoreAuth(p) : p \in Payloads}

\* ---- owners of the RLock ----
NoOwner == <<"none", 0>>
T(t) == <<"thread", t>>
P(h) == <<"poller", h>>

VARIABLES
    tokenFile,      \* the file at TraktInstance.auth_token
    initFile,       \* the token file found at construction
    authorization,  \* self.authorization
    lockOwner,      \* owner of the Condition's RLock
    lockCount,      \* recursion level of the RLock
    waiters,        \* threads inside Condition.wait() not yet notified
    pc,             \* position of each caller thread
    saved,          \* recursion level saved by wait() of each thread
    hs,             \* handshake of the current (or last) non-rejected call of each thread
    retval,         \* value returned by the last authenticate() of each thread
    fileAtCall,     \* token file when the current authenticate() of each thread was called
    ctor,           \* "running", "raised" or "done": state of __init__
    ctorHandshake,  \* a device code was requested from inside __init__
    codes,          \* number of device codes requested so far
    calls,          \* number of authenticate() calls so far
    poller,         \* position of the poller of each handshake
    ev,             \* terminal event emitted by the poller of each handshake
    payload,        \* authorization payload of an authenticated event
    polls,          \* poll ticks answered by on_poll
    returned,       \* the authenticate() call of each handshake has returned
    dry_run,        \* sync_db.py: the module-level dry_run flag
    syncPc,         \* sync_db.py: position of sync_db()
    last_modified0, \* sync_db.py: table -> last_modified reported by endpoint0
    last_modified1, \* sync_db.py: table -> last_modified reported by endpoint1
    todo,           \* sync_db.py: tables the for loop has not visited yet
    table,          \* sync_db.py: the loop variable
    resp,           \* sync_db.py: rows returned by the last GET
    requests        \* sync_db.py: the /list/<table> requests issued so far

traktVars == <<tokenFile, initFile, authorization, lockOwner, lockCount, waiters, pc,
          saved, hs, retval, fileAtCall, ctor, ctorHandshake, codes, calls,
          poller, ev, payload, polls, returned>>

syncVars == <<dry_run, syncPc, last_modified0, last_modified1, todo, table, resp,
              requests>>

vars == <<traktVars, syncVars>>

lockVars == <<lockOwner, lockCount, waiters, saved>>
pollerVars == <<poller, ev, payload, polls>>
ctorVars == <<initFile, ctor, ctorHandshake>>

\* the state of a TraktInstance when __init__ starts
TraktInit ==
    /\ tokenFile \in InitFiles
    /\ initFile = tokenFile
    /\ authorization = None
    /\ lockOwner = NoOwner
    /\ lockCount = 0
    /\ waiters = {}
    /\ pc = [t \in Threads |-> IF t = CtorThread THEN "ctor_read" ELSE "idle"]
    /\ saved = [t \in Threads |-> 0]
    /\ hs = [t \in Threads |-> 0]
    /\ retval = [t \in Threads |-> "none"]
    /\ fileAtCall = [t \in Threads |-> tokenFile]
    /\ ctor = "running"
    /\ ctorHandshake = FALSE
    /\ codes = 0
    /\ calls = 0
    /\ poller = [h \in Handshakes |-> "unborn"]
    /\ ev = [h \in Handshakes |-> "none"]
    /\ payload = [h \in Handshakes |-> None]
    /\ polls = [h \in Handshakes |-> 0]
    /\ returned = [h \in Handshakes |-> FALSE]

\* a dict with no key
EmptyDict == [k \in {} |-> 0]

\* resp before any GET
NoRows == [kind |-> "none", from |-> 0 - 1, since |-> 0]

\* sync_db.py is not running
SyncAtRest ==
    /\ dry_run = TRUE
    /\ syncPc = "rest"
    /\ last_modified0 = EmptyDict
    /\ last_modified1 = EmptyDict
    /\ todo = {}
    /\ table = "none"
    /\ resp = NoRows
    /\ requests = {}

Init == TraktInit /\ SyncAtRest

\* ---- read_auth() ----
\* None when the file does not exist, else json.load of its text.
ReadAuth(file) == IF ~file.exists THEN None ELSE JsonLoad(file.text)

\* read_auth() raises (json.load on a text that is not JSON).
ReadAuthRaises(file) == file.exists /\ JsonRaises(file.text)

\* ---- __init__ ----
\* self.authorization = self.read_auth()
CtorRead(t) ==
    /\ pc[t] = "ctor_read"
    /\ IF ReadAuthRaises(tokenFile)
       THEN /\ ctor' = "raised"
            /\ pc' = [pc EXCEPT ![t] = "dead"]
            /\ UNCHANGED authorization
       ELSE /\ authorization' = ReadAuth(tokenFile)
            /\ pc' = [pc EXCEPT ![t] = "ctor_check"]
            /\ UNCHANGED ctor
    /\ UNCHANGED <<tokenFile, initFile, ctorHandshake, lockVars, hs, retval,
                   fileAtCall, codes, calls, pollerVars, returned>>
    /\ UNCHANGED syncVars

\* if self.authorization is None: self.authenticate()
CtorCheck(t) ==
    /\ pc[t] = "ctor_check"
    /\ IF authorization = None
       THEN /\ pc' = [pc EXCEPT ![t] = "auth_acquire"]
            /\ calls' = calls + 1
            /\ fileAtCall' = [fileAtCall EXCEPT ![t] = tokenFile]
            /\ UNCHANGED ctor
       ELSE /\ pc' = [pc EXCEPT ![t] = "idle"]
            /\ ctor' = "done"
            /\ UNCHANGED <<calls, fileAtCall>>
    /\ UNCHANGED <<tokenFile, initFile, ctorHandshake, authorization, lockVars,
                   hs, retval, codes, pollerVars, returned>>
    /\ UNCHANGED syncVars

\* ---- authenticate() ----
\* threads inside authenticate() that have not requested their device code yet
Entering == {u \in Threads : pc[u] \in {"auth_acquire", "auth_code"}}

\* A thread holding a reference to the constructed instance calls authenticate().
\* (The guards on calls and codes bound the run.)
Call(t) ==
    /\ ctor = "done"
    /\ pc[t] = "idle"
    /\ calls < MaxCalls
    /\ codes + Cardinality(Entering) < MaxHandshakes
    /\ calls' = calls + 1
    /\ pc' = [pc EXCEPT ![t] = "auth_acquire"]
    /\ fileAtCall' = [fileAtCall EXCEPT ![t] = tokenFile]
    /\ UNCHANGED <<tokenFile, authorization, lockVars, hs, retval, ctorVars,
                   codes, pollerVars, returned>>
    /\ UNCHANGED syncVars

\* RLock.acquire(blocking=False) succeeds when the lock is free or already
\* owned by the calling thread.
CanAcquire(t) == lockOwner = NoOwner \/ lockOwner = T(t)

\* if not self.is_authenticating.acquire(blocking=False): ... (acquired)
AuthenticateAcquire(t) ==
    /\ pc[t] = "auth_acquire"
    /\ CanAcquire(t)
    /\ lockOwner' = T(t)
    /\ lockCount' = lockCount + 1
    /\ pc' = [pc EXCEPT ![t] = "auth_code"]
    /\ UNCHANGED <<tokenFile, authorization, waiters, saved, hs, retval,
                   fileAtCall, ctorVars, codes, calls, pollerVars, returned>>
    /\ UNCHANGED syncVars

\* Mutant of AuthenticateRejected: the early return is missing, the call goes on
\* to request a device code without holding the lock.
AuthenticateRejectedNoReturn(t) ==
    /\ pc[t] = "auth_acquire"
    /\ ~CanAcquire(t)
    /\ pc' = [pc EXCEPT ![t] = "auth_code"]
    /\ UNCHANGED <<tokenFile, authorization, lockVars, hs, retval, fileAtCall,
                   ctorVars, codes, calls, pollerVars, returned>>
    /\ UNCHANGED syncVars

\* print('Authentication has already been started'); return False
AuthenticateRejected(t) ==
    /\ pc[t] = "auth_acquire"
    /\ ~CanAcquire(t)
    /\ retval' = [retval EXCEPT ![t] = "False"]
    /\ pc' = [pc EXCEPT ![t] = "idle"]
    /\ UNCHANGED <<tokenFile, authorization, lockVars, hs, fileAtCall,
                   ctorVars, codes, calls, pollerVars, returned>>
    /\ UNCHANGED syncVars

\* code = Trakt['oauth/device'].code()
RequestCode(t) ==
    /\ pc[t] = "auth_code"
    /\ codes' = codes + 1
    /\ hs' = [hs EXCEPT ![t] = codes + 1]
    /\ ctorHandshake' = (ctorHandshake \/ ctor = "running")
    /\ pc' = [pc EXCEPT ![t] = "auth_start"]
    /\ UNCHANGED <<tokenFile, initFile, ctor, authorization, lockVars, retval,
                   fileAtCall, calls, pollerVars, returned>>
    /\ UNCHANGED syncVars

\* poller = Trakt['oauth/device'].poll(**code).on(...); poller.start(daemon=False)
StartPoller(t) ==
    /\ pc[t] = "auth_start"
    /\ poller' = [poller EXCEPT ![hs[t]] = "polling"]
    /\ pc' = [pc EXCEPT ![t] = "auth_wait"]
    /\ UNCHANGED <<tokenFile, authorization, lockVars, hs, retval, fileAtCall,
                   ctorVars, codes, calls, ev, payload, polls, returned>>
    /\ UNCHANGED syncVars

\* self.is_authenticating.wait(), first half: the RLock is released whatever
\* its recursion level, the level is saved, the thread joins the waiters.
WaitRelease(t) ==
    /\ pc[t] = "auth_wait"
    /\ saved' = [saved EXCEPT ![t] = lockCount]
    /\ lockOwner' = NoOwner
    /\ lockCount' = 0
    /\ waiters' = waiters \cup {t}
    /\ pc' = [pc EXCEPT ![t] = "waiting"]
    /\ UNCHANGED <<tokenFile, authorization, hs, retval, fileAtCall, ctorVars,
                   codes, calls, pollerVars, returned>>
    /\ UNCHANGED syncVars

\* self.is_authenticating.wait(), second half: a notified thread re-acquires
\* the RLock (blocking) and restores its recursion level.
WaitReacquire(t) ==
    /\ pc[t] = "notified"
    /\ lockOwner = NoOwner
    /\ lockOwner' = T(t)
    /\ lockCount' = saved[t]
    /\ pc' = [pc EXCEPT ![t] = "auth_store"]
    /\ UNCHANGED <<tokenFile, authorization, waiters, saved, hs, retval,
                   fileAtCall, ctorVars, codes, calls, pollerVars, returned>>
    /\ UNCHANGED syncVars

\* self.store_auth()
AuthStore(t) ==
    /\ pc[t] = "auth_store"
    /\ tokenFile' = StoreAuth(authorization)
    /\ pc' = [pc EXCEPT ![t] = "auth_return"]
    /\ UNCHANGED <<authorization, lockVars, hs, retval, fileAtCall, ctorVars,
                   codes, calls, pollerVars, returned>>
    /\ UNCHANGED syncVars

\* return result: result is the value of Condition.wait() without timeout,
\* which is always True. The RLock is not released.
AuthReturn(t) ==
    /\ pc[t] = "auth_return"
    /\ retval' = [retval EXCEPT ![t] = "True"]
    /\ returned' = [returned EXCEPT ![hs[t]] = TRUE]
    /\ pc' = [pc EXCEPT ![t] = "idle"]
    /\ ctor' = IF ctor = "running" THEN "done" ELSE ctor
    /\ UNCHANGED <<tokenFile, initFile, ctorHandshake, authorization, lockVars,
                   hs, fileAtCall, codes, calls, pollerVars>>
    /\ UNCHANGED syncVars

\* ---- the device authentication poller (trakt.py, started at line 78) ----
\* on_poll(callback): callback(True), polling continues.
OnPoll(h) ==
    /\ poller[h] = "polling"
    /\ polls[h] < MaxPolls
    /\ polls' = [polls EXCEPT ![h] = polls[h] + 1]
    /\ UNCHANGED <<tokenFile, authorization, lockVars, pc, hs, retval,
                   fileAtCall, ctorVars, codes, calls, poller, ev, payload, returned>>
    /\ UNCHANGED syncVars

\* The poller emits its one terminal event and enters the bound handler.
PollerEmit(h, e, p) ==
    /\ poller[h] = "polling"
    /\ ev' = [ev EXCEPT ![h] = e]
    /\ payload' = [payload EXCEPT ![h] = IF e = "authenticated" THEN p ELSE None]
    /\ poller' = [poller EXCEPT ![h] = "cb_acquire"]
    /\ UNCHANGED <<tokenFile, authorization, lockVars, pc, hs, retval,
                   fileAtCall, ctorVars, codes, calls, polls, returned>>
    /\ UNCHANGED syncVars

\* self.is_authenticating.acquire() in a handler: blocking, from the poller thread.
HandlerAcquire(h) ==
    /\ poller[h] = "cb_acquire"
    /\ lockOwner = NoOwner
    /\ lockOwner' = P(h)
    /\ lockCount' = 1
    /\ poller' = [poller EXCEPT ![h] = IF ev[h] = "authenticated" THEN "cb_store" ELSE "cb_notify"]
    /\ UNCHANGED <<tokenFile, authorization, waiters, saved, pc, hs, retval,
                   fileAtCall, ctorVars, codes, calls, ev, payload, polls, returned>>
    /\ UNCHANGED syncVars

\* self.is_authenticating.notify_all(): every waiter leaves the wait queue.
HandlerNotifyAll(h) ==
    /\ poller[h] = "cb_notify"
    /\ pc' = [t \in Threads |-> IF t \in waiters THEN "notified" ELSE pc[t]]
    /\ waiters' = {}
    /\ poller' = [poller EXCEPT ![h] = "cb_release"]
    /\ UNCHANGED <<tokenFile, authorization, lockOwner, lockCount, saved, hs,
                   retval, fileAtCall, ctorVars, codes, calls, ev, payload, polls,
                   returned>>
    /\ UNCHANGED syncVars

\* self.is_authenticating.release(): the handler returns.
HandlerRelease(h) ==
    /\ poller[h] = "cb_release"
    /\ lockOwner' = NoOwner
    /\ lockCount' = 0
    /\ poller' = [poller EXCEPT ![h] = "done"]
    /\ UNCHANGED <<tokenFile, authorization, waiters, saved, pc, hs, retval,
                   fileAtCall, ctorVars, codes, calls, ev, payload, polls, returned>>
    /\ UNCHANGED syncVars

\* on_aborted(): acquire, notify_all, release.
OnAborted(h) ==
    /\ ev[h] = "aborted"
    /\ \/ HandlerAcquire(h)
       \/ HandlerNotifyAll(h)
       \/ HandlerRelease(h)

\* on_expired(): acquire, notify_all, release.
OnExpired(h) ==
    /\ ev[h] = "expired"
    /\ \/ HandlerAcquire(h)
       \/ HandlerNotifyAll(h)
       \/ HandlerRelease(h)

\* self.authorization = authorization, under the lock.
AuthenticatedStore(h) ==
    /\ poller[h] = "cb_store"
    /\ authorization' = payload[h]
    /\ poller' = [poller EXCEPT ![h] = "cb_notify"]
    /\ UNCHANGED <<tokenFile, lockVars, pc, hs, retval, fileAtCall, ctorVars,
                   codes, calls, ev, payload, polls, returned>>
    /\ UNCHANGED syncVars

\* on_authenticated(authorization): acquire, store, notify_all, release.
OnAuthenticated(h) ==
    /\ ev[h] = "authenticated"
    /\ \/ HandlerAcquire(h)
       \/ AuthenticatedStore(h)
       \/ HandlerNotifyAll(h)
       \/ HandlerRelease(h)

\* ---- the oauth.token_refreshed hook ----
\* on_token_refreshed(authorization): fired by the client library while thread t
\* is inside an API call (with ...from_response(self.authorization, refresh=True)).
\* It takes no lock and does not call store_auth().
OnTokenRefreshed(t, p) ==
    /\ ctor = "done"
    /\ pc[t] = "idle"
    /\ authorization # None
    /\ authorization' = p
    /\ UNCHANGED <<tokenFile, lockVars, pc, hs, retval, fileAtCall, ctorVars,
                   codes, calls, pollerVars, returned>>
    /\ UNCHANGED syncVars

TerminalEvents == {"authenticated", "aborted", "expired"}

Next ==
    \/ \E t \in Threads : CtorRead(t)
    \/ \E t \in Threads : CtorCheck(t)
    \/ \E t \in Threads : Call(t)
    \/ \E t \in Threads : AuthenticateAcquire(t)
    \/ \E t \in Threads : AuthenticateRejected(t)
    \/ \E t \in Threads : RequestCode(t)
    \/ \E t \in Threads : StartPoller(t)
    \/ \E t \in Threads : WaitRelease(t)
    \/ \E t \in Threads : WaitReacquire(t)
    \/ \E t \in Threads : AuthStore(t)
    \/ \E t \in Threads : AuthReturn(t)
    \/ \E h \in Handshakes : OnPoll(h)
    \/ \E h \in Handshakes, e \in TerminalEvents, p \in Payloads : PollerEmit(h, e, p)
    \/ \E h \in Handshakes : OnAborted(h)
    \/ \E h \in Handshakes : OnExpired(h)
    \/ \E h \in Handshakes : OnAuthenticated(h)
    \/ \E t \in Threads, p \in Payloads : OnTokenRefreshed(t, p)

Spec == Init /\ [][Next]_vars

\* Every thread that can take a step of authenticate() or of a handler
\* eventually takes it; calls, terminal events and refreshes are inputs.
Fairness ==
    /\ \A t \in Threads :
        /\ WF_vars(CtorRead(t))
        /\ WF_vars(CtorCheck(t))
        /\ WF_vars(AuthenticateAcquire(t))
        /\ WF_vars(AuthenticateRejected(t))
        /\ WF_vars(RequestCode(t))
        /\ WF_vars(StartPoller(t))
        /\ WF_vars(WaitRelease(t))
        /\ SF_vars(WaitReacquire(t))
        /\ WF_vars(AuthStore(t))
        /\ WF_vars(AuthReturn(t))
    /\ \A h \in Handshakes :
        /\ SF_vars(OnAborted(h))
        /\ SF_vars(OnExpired(h))
        /\ SF_vars(OnAuthenticated(h))

FairSpec == Spec /\ Fairness

\* ======================= scripts/sync_db.py =======================

\* bound: last_modified values are 1..MaxStamp, ordered as Python's > orders them
MaxStamp == 2
Stamps == 1..MaxStamp

\* entry_map
entry_map == [imdb_episodes |-> "episodes", imdb_ratings |-> "shows",
              movie_collection |-> "collection", movie_queue |-> "queue"]

\* the tables an endpoint may list under /list/last_modified: two keys of
\* entry_map and one table that entry_map does not know
SyncTables == {"imdb_episodes", "movie_queue", "trakt_watchlist"}

\* the dicts {x['table']: x['last_modified'] for x in ...} an endpoint can produce
ModifiedDicts == UNION {[S -> Stamps] : S \in SUBSET SyncTables}

\* the rows GET {endpoint}/list/{table}?start_timestamp={since} returns
Rows(e, since) == [kind |-> "rows", from |-> e, since |-> since]

\* the Response object of requests.post
PostResponse == [kind |-> "response", from |-> 0 - 1, since |-> 0]

\* a request GET {endpoint}/list/{table}?start_timestamp={start}
GetRequest(e, tb, start) ==
    [method |-> "GET", endpoint |-> e, table |-> tb, start |-> start,
     key |-> "", rows |-> NoRows]

\* a request POST {endpoint}/list/{table} with json={key: rows}
PostRequest(e, tb, k, rows) ==
    [method |-> "POST", endpoint |-> e, table |-> tb, start |-> 0,
     key |-> k, rows |-> rows]

\* the TraktInstance program is not running
TraktAtRest == TraktInit /\ tokenFile = MissingFile

SyncInit ==
    /\ TraktAtRest
    /\ dry_run \in BOOLEAN
    /\ syncPc = "start"
    /\ last_modified0 = EmptyDict
    /\ last_modified1 = EmptyDict
    /\ todo = {}
    /\ table = "none"
    /\ resp = NoRows
    /\ requests = {}

\* cookies0 = requests.post(.../api/auth).cookies; cookies1 likewise
SyncLogin ==
    /\ syncPc = "start"
    /\ syncPc' = "authed"
    /\ UNCHANGED <<dry_run, last_modified0, last_modified1, todo, table, resp,
                   requests, traktVars>>

\* last_modified0/1 = GET /list/last_modified as dicts;
\* tables = set(last_modified0) & set(last_modified1)
SyncReadModified(lm0, lm1) ==
    /\ syncPc = "authed"
    /\ last_modified0' = lm0
    /\ last_modified1' = lm1
    /\ todo' = (DOMAIN lm0) \cap (DOMAIN lm1)
    /\ syncPc' = "loop"
    /\ UNCHANGED <<dry_run, table, resp, requests, traktVars>>

\* for table in tables: (next iteration, in the set's iteration order)
SyncNextTable(tb) ==
    /\ syncPc = "loop"
    /\ tb \in todo
    /\ table' = tb
    /\ todo' = todo \ {tb}
    /\ syncPc' = "if0"
    /\ UNCHANGED <<dry_run, last_modified0, last_modified1, resp, requests,
                   traktVars>>

\* the for loop is exhausted: return
SyncReturn ==
    /\ syncPc = "loop"
    /\ todo = {}
    /\ syncPc' = "done"
    /\ UNCHANGED <<dry_run, last_modified0, last_modified1, todo, table, resp,
                   requests, traktVars>>

\* if mod0 > mod1: resp = GET endpoint0/list/table?start_timestamp=mod1
SyncFetch0 ==
    /\ syncPc = "if0"
    /\ IF last_modified0[table] > last_modified1[table]
       THEN /\ requests' = requests \cup {GetRequest(0, table, last_modified1[table])}
            /\ resp' = Rows(0, last_modified1[table])
            /\ syncPc' = "post1"
       ELSE /\ syncPc' = "if1"
            /\ UNCHANGED <<resp, requests>>
    /\ UNCHANGED <<dry_run, last_modified0, last_modified1, todo, table, traktVars>>

\* if not dry_run: js = {entry_map[table]: resp}; resp = POST endpoint1/list/table
\* (entry_map[table] raises KeyError for a table that is not a key)
SyncPost1 ==
    /\ syncPc = "post1"
    /\ IF dry_run
       THEN /\ syncPc' = "if1"
            /\ UNCHANGED <<resp, requests>>
       ELSE IF table \in DOMAIN entry_map
            THEN /\ requests' = requests \cup {PostRequest(1, table, entry_map[table], resp)}
                 /\ resp' = PostResponse
                 /\ syncPc' = "if1"
            ELSE /\ syncPc' = "raised"
                 /\ UNCHANGED <<resp, requests>>
    /\ UNCHANGED <<dry_run, last_modified0, last_modified1, todo, table, traktVars>>

\* Mutant of SyncFetch1: the comparison is not strict (mod1 >= mod0).
SyncFetch1NotStrict ==
    /\ syncPc = "if1"
    /\ IF last_modified1[table] >= last_modified0[table]
       THEN /\ requests' = requests \cup {GetRequest(1, table, last_modified0[table])}
            /\ resp' = Rows(1, last_modified0[table])
            /\ syncPc' = "post0"
       ELSE /\ syncPc' = "loop"
            /\ UNCHANGED <<resp, requests>>
    /\ UNCHANGED <<dry_run, last_modified0, last_modified1, todo, table, traktVars>>

\* if mod1 > mod0: resp = GET endpoint1/list/table?start_timestamp=mod0
SyncFetch1 ==
    /\ syncPc = "if1"
    /\ IF last_modified1[table] > last_modified0[table]
       THEN /\ requests' = requests \cup {GetRequest(1, table, last_modified0[table])}
            /\ resp' = Rows(1, last_modified0[table])
            /\ syncPc' = "post0"
       ELSE /\ syncPc' = "loop"
            /\ UNCHANGED <<resp, requests>>
    /\ UNCHANGED <<dry_run, last_modified0, last_modified1, todo, table, traktVars>>

\* if not dry_run: js = {entry_map[table]: resp}; resp = POST endpoint0/list/table
SyncPost0 ==
    /\ syncPc = "post0"
    /\ IF dry_run
       THEN /\ syncPc' = "loop"
            /\ UNCHANGED <<resp, requests>>
       ELSE IF table \in DOMAIN entry_map
            THEN /\ requests' = requests \cup {PostRequest(0, table, entry_map[table], resp)}
                 /\ resp' = PostResponse
                 /\ syncPc' = "loop"
            ELSE /\ syncPc' = "raised"
                 /\ UNCHANGED <<resp, requests>>
    /\ UNCHANGED <<dry_run, last_modified0, last_modified1, todo, table, traktVars>>

SyncNext ==
    \/ SyncLogin
    \/ \E lm0 \in ModifiedDicts, lm1 \in ModifiedDicts : SyncReadModified(lm0, lm1)
    \/ \E tb \in SyncTables : SyncNextTable(tb)
    \/ SyncReturn
    \/ SyncFetch0
    \/ SyncPost1
    \/ SyncFetch1
    \/ SyncPost0

SyncSpec == SyncInit /\ [][SyncNext]_vars

\* ======================= claims =======================

\* positions of a caller between the successful lock acquisition and the return
InFlight == {"auth_code", "auth_start", "auth_wait", "waiting", "notified",
             "auth_store", "auth_return"}

\* thread t returns from a non-rejected authenticate() in this step
IsReturn(t) == pc[t] = "auth_return" /\ pc'[t] = "idle"

\* C1: at most one handshake is in flight at any time: while one caller is
\* between the lock acquisition and its return (the condition wait included),
\* no other caller gets past the non-blocking lock acquisition.
C1_AtMostOneHandshake ==
    Cardinality({t \in Threads : pc[t] \in InFlight}) <= 1

\* C2: when the poller of a handshake reported authenticated(payload), the
\* call of that handshake persists self.authorization equal to payload and
\* returns success with the token file holding exactly payload.
C2_AuthenticatedPersisted ==
    [][\A t \in Threads :
         /\ (pc[t] = "auth_store" /\ pc'[t] = "auth_return"
               /\ ev[hs[t]] = "authenticated")
            => authorization = payload[hs[t]]
         /\ (IsReturn(t) /\ ev[hs[t]] = "authenticated")
            => /\ retval'[t] = "True"
               /\ tokenFile'.exists
               /\ ReadAuth(tokenFile') = payload[hs[t]]]_vars

\* C3: the value returned by authenticate() identifies the terminal outcome:
\* the success value is returned exactly when the poller reported
\* authenticated, never for aborted or expired.
C3_ResultIdentifiesOutcome ==
    [][\A t \in Threads :
         (IsReturn(t) /\ ev[hs[t]] \in TerminalEvents)
         => ((retval'[t] = "True") <=> (ev[hs[t]] = "authenticated"))]_vars

\* C4: when the poller reported aborted or expired, the token file when the
\* call returns is the token file found when the call was made (neither
\* created nor rewritten).
C4_FailureLeavesTokenFile ==
    [][\A t \in Threads :
         (IsReturn(t) /\ ev[hs[t]] \in {"aborted", "expired"})
         => tokenFile' = fileAtCall[t]]_vars

\* C5: a non-rejected call neither writes the token file nor returns before
\* the poller of its own handshake has reported a terminal event.
C5_NoProgressBeforeTerminalEvent ==
    /\ \A t \in Threads : pc[t] = "auth_return" => ev[hs[t]] \in TerminalEvents
    /\ \A h \in Handshakes : returned[h] => ev[h] \in TerminalEvents

\* C6: once a handshake has returned and no call is in progress, the instance
\* is idle again: a call by any thread would get past the lock acquisition.
C6_IdleAfterTerminal ==
    ((\E h \in Handshakes : returned[h])
       /\ \A t \in Threads : pc[t] \notin InFlight \cup {"auth_acquire"})
    => \A t \in Threads : CanAcquire(t)

\* C7: a call that cannot acquire the lock never blocks (its next step is
\* always enabled), and that step returns False and changes nothing else: no
\* device code, no poller, the authorization, the token file, the lock, the
\* waiters and every other caller are left as they were.
C7_RejectedCallHasNoEffect ==
    /\ [](\A t \in Threads :
            (pc[t] = "auth_acquire" /\ ~CanAcquire(t))
            => ENABLED <<AuthenticateRejected(t)>>_vars)
    /\ [][\A t \in Threads :
            (pc[t] = "auth_acquire" /\ ~CanAcquire(t) /\ pc'[t] # pc[t])
            => /\ pc'[t] = "idle"
               /\ retval'[t] = "False"
               /\ \A u \in Threads \ {t} : pc'[u] = pc[u] /\ retval'[u] = retval[u]
               /\ UNCHANGED <<tokenFile, authorization, lockVars, hs, codes,
                              pollerVars, returned>>]_vars

\* C7 witness: a call was rejected while another caller holds the lock in its
\* handshake.
C7_Witness ==
    \E t, u \in Threads :
        /\ t # u
        /\ retval[t] = "False"
        /\ pc[t] = "idle"
        /\ pc[u] \in {"auth_code", "auth_start", "auth_wait"}
        /\ lockOwner = T(u)

\* C8: whenever the token-refreshed hook fires with a new payload, the
\* authorization becomes that payload and the token file is overwritten with it.
C8_RefreshPersisted ==
    [][\A t \in Threads, p \in Payloads :
         OnTokenRefreshed(t, p)
         => /\ authorization' = p
            /\ tokenFile'.exists
            /\ ReadAuth(tokenFile') = p]_vars

\* the token file holds a token (a JSON document other than null)
ValidTokenFile(f) == f.exists /\ ~JsonRaises(f.text) /\ JsonLoad(f.text) # None

\* C9: when the constructor ends: with an empty or missing token file it has
\* started a handshake; with a valid token file it has started none and the
\* authorization is the token read from the file.
C9_ConstructionHandshake ==
    [][(ctor = "running" /\ ctor' # "running")
       => /\ (~initFile.exists \/ Len(initFile.text) = 0) => ctorHandshake'
          /\ ValidTokenFile(initFile)
             => (~ctorHandshake' /\ authorization' = JsonLoad(initFile.text))]_vars

\* C10: under fair scheduling every call whose poller has reported a terminal
\* event eventually returns, and neither a notified caller nor a handler
\* stays blocked on the condition's lock.
C10_TerminalEventLeadsToReturn ==
    /\ \A h \in Handshakes : (ev[h] \in TerminalEvents) ~> returned[h]
    /\ \A t \in Threads : (pc[t] = "notified") ~> (pc[t] # "notified")
    /\ \A h \in Handshakes : (poller[h] = "cb_acquire") ~> (poller[h] # "cb_acquire")

\* tables reported by both endpoints
BothTables == (DOMAIN last_modified0) \cap (DOMAIN last_modified1)

\* last_modified of table tb at endpoint e
Mod(e, tb) == IF e = 0 THEN last_modified0[tb] ELSE last_modified1[tb]

\* C11: every /list/<table> request of sync_db is for a table both endpoints
\* report; a GET goes to the endpoint whose last_modified is strictly newer,
\* with start_timestamp the older endpoint's last_modified; a POST goes to the
\* strictly older endpoint, only when dry_run is false, carrying the rows
\* fetched from the newer one; no table is moved in both directions (so
\* equal timestamps and tables of one endpoint only cause no request).
C11_SyncOneDirection ==
    /\ \A r \in requests :
        /\ r.table \in BothTables
        /\ r.method = "GET"
           => /\ Mod(r.endpoint, r.table) > Mod(1 - r.endpoint, r.table)
              /\ r.start = Mod(1 - r.endpoint, r.table)
        /\ r.method = "POST"
           => /\ ~dry_run
              /\ Mod(r.endpoint, r.table) < Mod(1 - r.endpoint, r.table)
              /\ r.rows = Rows(1 - r.endpoint, Mod(r.endpoint, r.table))
    /\ \A r1, r2 \in requests :
        (r1.table = r2.table /\ r1.method = r2.method) => r1.endpoint = r2.endpoint
    /\ \A tb \in BothTables :
        Mod(0, tb) = Mod(1, tb) => ~\E r \in requests : r.table = tb

\* C11 witness: sync_db returned after writing one table to the older
\* endpoint, with another common table at equal timestamps and a table
\* reported by one endpoint only.
C11_Witness ==
    /\ syncPc = "done"
    /\ \E r \in requests : r.method = "POST"
    /\ \E tb \in BothTables : Mod(0, tb) = Mod(1, tb)
    /\ \E tb \in SyncTables :
        (tb \in DOMAIN last_modified0) # (tb \in DOMAIN last_modified1)

====
